---- MODULE Spec2Model ----
(***************************************************************************)
(* A model of the stimpl tree-walking evaluator (src/stimpl/runtime.py).   *)
(*                                                                         *)
(* evaluate(expression, state) is the recursive operator Evaluate.  The    *)
(* interpreter process around it is the third argument, world: the object  *)
(* heap that holds the State nodes, the lines written to standard output,  *)
(* and the sequence of nodes evaluate was entered on.  A State is an       *)
(* address of the heap, EmptyState is the address of the terminal node.    *)
(*                                                                         *)
(* The state machine is run_stimpl(Program(exprs)): one step per iteration *)
(* of the Program loop, the element drawn from bounded families.           *)
(***************************************************************************)
EXTENDS Integers, Sequences, FiniteSets

(***************************************************************************)
(* Bounds of the model.                                                    *)
(***************************************************************************)
\* top-level assignments of a literal that may precede the final element
MaxSetup == 2
\* iterations of a while loop the model follows before it reports "Running"
MaxIter == 5

(***************************************************************************)
(* Host values.  A Python value is [py, val]: py is the host class of the  *)
(* value, val its payload.  A str is the sequence of its code points, a    *)
(* float a reduced fraction <<numerator, denominator>>.                    *)
(***************************************************************************)
None == [py |-> "NoneType", val |-> <<>>]
PyInt(n) == [py |-> "int", val |-> n]
PyBool(b) == [py |-> "bool", val |-> b]
PyStr(s) == [py |-> "str", val |-> s]
PyTuple(a, b) == [py |-> "tuple", val |-> <<a, b>>]

Abs(n) == IF n < 0 THEN -n ELSE n

RECURSIVE Gcd(_, _)
Gcd(a, b) == IF b = 0 THEN a ELSE Gcd(b, a % b)

\* the float n/d, d # 0, as a reduced fraction with a positive denominator;
\* the fraction is the host float wherever the host arithmetic is exact
PyFloat(n, d) ==
    LET g == Gcd(Abs(n), Abs(d))
        sgn == IF d < 0 THEN -1 ELSE 1
    IN  [py |-> "float", val |-> <<sgn * (n \div g), sgn * (d \div g)>>]

\* a division on int that rounds toward zero
MutFloorDivTruncates(a, b) ==
    LET q == Abs(a) \div Abs(b)
    IN  IF (a < 0) # (b < 0) THEN 0 - q ELSE q

\* Python's floor division on int (the divisor is not zero)
FloorDiv(a, b) == IF b > 0 THEN a \div b ELSE (-a) \div (-b)

\* lexicographic order of two str payloads, by code point
RECURSIVE StrLess(_, _)
StrLess(s, t) ==
    IF t = <<>> THEN FALSE
    ELSE IF s = <<>> THEN TRUE
    ELSE IF Head(s) # Head(t) THEN Head(s) < Head(t)
    ELSE StrLess(Tail(s), Tail(t))

\* bool is a subclass of int: False is 0 and True is 1
BoolInt(b) == IF b THEN 1 ELSE 0

\* a < b on two host values of the same class
PyLt(a, b) ==
    CASE a.py = "int" -> a.val < b.val
      [] a.py = "bool" -> BoolInt(a.val) < BoolInt(b.val)
      [] a.py = "str" -> StrLess(a.val, b.val)
      [] a.py = "float" -> a.val[1] * b.val[2] < b.val[1] * a.val[2]

\* a == b on two host values; values of different classes here are None
\* against a payload, which are unequal
PyEq(a, b) == a.py = b.py /\ a.val = b.val

PyLe(a, b) == PyLt(a, b) \/ PyEq(a, b)
PyGt(a, b) == PyLt(b, a)
PyGe(a, b) == PyLt(b, a) \/ PyEq(a, b)
PyNe(a, b) == ~PyEq(a, b)

\* a + b, a - b, a * b on two host values of the same class
PyAdd(a, b) ==
    CASE a.py = "int" -> PyInt(a.val + b.val)
      [] a.py = "str" -> PyStr(a.val \o b.val)
      [] a.py = "float" ->
           PyFloat(a.val[1] * b.val[2] + b.val[1] * a.val[2], a.val[2] * b.val[2])

PySub(a, b) ==
    CASE a.py = "int" -> PyInt(a.val - b.val)
      [] a.py = "float" ->
           PyFloat(a.val[1] * b.val[2] - b.val[1] * a.val[2], a.val[2] * b.val[2])

PyMul(a, b) ==
    CASE a.py = "int" -> PyInt(a.val * b.val)
      [] a.py = "float" -> PyFloat(a.val[1] * b.val[1], a.val[2] * b.val[2])

\* the divisor of a / b or a // b is the zero value
IsZero(b) == IF b.py = "float" THEN b.val[1] = 0 ELSE b.val = 0

\* a / b on float (the divisor is not zero)
PyTrueDiv(a, b) == PyFloat(a.val[1] * b.val[2], a.val[2] * b.val[1])

\* a // b on int (the divisor is not zero)
PyFloorDiv(a, b) == PyInt(FloorDiv(a.val, b.val))

(***************************************************************************)
(* Runtime types: a closed set of tags, equal iff the same tag.            *)
(***************************************************************************)
Unit == "Unit"
Integer == "Integer"
FloatingPoint == "FloatingPoint"
String == "String"
Boolean == "Boolean"
Types == {Unit, Integer, FloatingPoint, String, Boolean}

\* None where a type is expected (the type of a name that has no binding)
NoType == "None"

\* a != b on two types: they are not the same tag; no type equals None
TypeNe(a, b) == a # b

\* the exceptions an evaluation can end with; NoExc marks a normal return
NoExc == "none"
InterpSyntaxError == "InterpSyntaxError"
InterpTypeError == "InterpTypeError"
ZeroDivisionError == "ZeroDivisionError"
\* the call has not returned within MaxIter iterations of a loop
Running == "Running"

(***************************************************************************)
(* Expression nodes, by the fields the match patterns of evaluate read.    *)
(***************************************************************************)
Ren == [kind |-> "Ren"]
IntLiteral(l) == [kind |-> "IntLiteral", literal |-> PyInt(l)]
FloatingPointLiteral(n, d) == [kind |-> "FloatingPointLiteral", literal |-> PyFloat(n, d)]
StringLiteral(l) == [kind |-> "StringLiteral", literal |-> PyStr(l)]
BooleanLiteral(l) == [kind |-> "BooleanLiteral", literal |-> PyBool(l)]
PrintNode(e) == [kind |-> "Print", to_print |-> e]
Sequence(es) == [kind |-> "Sequence", exprs |-> es]
Program(es) == [kind |-> "Program", exprs |-> es]
Variable(n) == [kind |-> "Variable", variable_name |-> n]
Assign(var, e) == [kind |-> "Assign", variable |-> var, value |-> e]
Binary(k, l, r) == [kind |-> k, left |-> l, right |-> r]
Add(l, r) == Binary("Add", l, r)
Subtract(l, r) == Binary("Subtract", l, r)
Multiply(l, r) == Binary("Multiply", l, r)
Divide(l, r) == Binary("Divide", l, r)
And(l, r) == Binary("And", l, r)
Or(l, r) == Binary("Or", l, r)
Not(e) == [kind |-> "Not", expr |-> e]
If(c, t, f) == [kind |-> "If", condition |-> c, true |-> t, false |-> f]
Lt(l, r) == Binary("Lt", l, r)
Lte(l, r) == Binary("Lte", l, r)
Gt(l, r) == Binary("Gt", l, r)
Gte(l, r) == Binary("Gte", l, r)
Eq(l, r) == Binary("Eq", l, r)
Ne(l, r) == Binary("Ne", l, r)
While(c, b) == [kind |-> "While", condition |-> c, body |-> b]

ArithKinds == {"Add", "Subtract", "Multiply", "Divide"}
LogicKinds == {"And", "Or"}
CompareKinds == {"Lt", "Lte", "Gt", "Gte", "Eq", "Ne"}
BinaryKinds == ArithKinds \cup LogicKinds \cup CompareKinds

(***************************************************************************)
(* Interpreter State: a chain of nodes on the heap.  heap[a] is the node   *)
(* at address a, EmptyState the terminal node, which holds no binding.     *)
(***************************************************************************)
EmptyState == 0

\* State.__init__: the fields of a new node
State(variable_name, variable_value, variable_type, next_state) ==
    [variable_name |-> variable_name,
     value |-> PyTuple(variable_value, variable_type),
     next_state |-> next_state]

\* set_value that overwrites the head node instead of allocating one
MutSetValueInPlace(heap, self, variable_name, variable_value, variable_type) ==
    IF self = EmptyState
    THEN [heap |-> Append(heap, State(variable_name, variable_value, variable_type, self)),
          state |-> Len(heap) + 1]
    ELSE [heap |-> [heap EXCEPT ![self] =
                        State(variable_name, variable_value, variable_type,
                              heap[self].next_state)],
          state |-> self]

\* set_value that allocates nothing when the head node is the same binding
MutSetValueSkipsSame(heap, self, variable_name, variable_value, variable_type) ==
    IF /\ self # EmptyState
       /\ heap[self].variable_name = variable_name
       /\ heap[self].value.val[2] = variable_type
       /\ heap[self].value.val[1] = variable_value
    THEN [heap |-> heap, state |-> self]
    ELSE [heap |-> Append(heap, State(variable_name, variable_value, variable_type, self)),
          state |-> Len(heap) + 1]

\* State.set_value: a new node in front of self; no node of the heap changes
set_value(heap, self, variable_name, variable_value, variable_type) ==
    [heap |-> Append(heap, State(variable_name, variable_value, variable_type, self)),
     state |-> Len(heap) + 1]

\* get_value that keeps walking and returns the oldest node carrying the name
RECURSIVE MutGetValueOldest(_, _, _)
MutGetValueOldest(heap, current_state, variable_name) ==
    IF current_state = EmptyState THEN None
    ELSE LET older == MutGetValueOldest(heap, heap[current_state].next_state,
                                        variable_name)
         IN  IF older.py # "NoneType" THEN older
             ELSE IF heap[current_state].variable_name = variable_name
                  THEN heap[current_state].value
             ELSE None

\* State.get_value: the value of the first node of the chain that carries
\* the name, None when the walk reaches EmptyState
RECURSIVE get_value(_, _, _)
get_value(heap, current_state, variable_name) ==
    IF current_state = EmptyState THEN None
    ELSE IF heap[current_state].variable_name = variable_name
         THEN heap[current_state].value
    ELSE get_value(heap, heap[current_state].next_state, variable_name)

\* the number of nodes of a chain, EmptyState not counted
RECURSIVE ChainLen(_, _)
ChainLen(heap, s) == IF s = EmptyState THEN 0 ELSE 1 + ChainLen(heap, heap[s].next_state)

\* the bindings of a chain, newest first
RECURSIVE Chain(_, _)
Chain(heap, s) ==
    IF s = EmptyState THEN <<>>
    ELSE <<[name |-> heap[s].variable_name,
            value |-> heap[s].value.val[1],
            type |-> heap[s].value.val[2]]>> \o Chain(heap, heap[s].next_state)

(***************************************************************************)
(* The interpreter process: heap, standard output, and the nodes evaluate  *)
(* was entered on, in call order.                                          *)
(***************************************************************************)
NewWorld == [heap |-> <<>>, stdout |-> <<>>, calls |-> <<>>]

\* evaluate is entered on a node
Enter(world, expression) == [world EXCEPT !.calls = Append(@, expression.kind)]

\* a return of evaluate, and an exception leaving it
Return(value, type, state, world) ==
    [exc |-> NoExc, value |-> value, type |-> type, state |-> state, world |-> world]
Raise(exc, world) == [exc |-> exc, world |-> world]

(***************************************************************************)
(* Text of a value, as print(f"{value}") writes it.                        *)
(***************************************************************************)
Digit(d) == <<48 + d>>

RECURSIVE NatStr(_)
NatStr(n) == IF n < 10 THEN Digit(n) ELSE NatStr(n \div 10) \o Digit(n % 10)

IntStr(n) == IF n < 0 THEN <<45>> \o NatStr(-n) ELSE NatStr(n)

\* the digits of a fraction num/den < 1 whose decimal expansion ends; a
\* fraction whose expansion does not end is cut after the digits a float holds
RECURSIVE FracStr(_, _, _)
FracStr(num, den, left) ==
    IF num = 0 \/ left = 0 THEN <<>>
    ELSE Digit((num * 10) \div den) \o FracStr((num * 10) % den, den, left - 1)

FloatStr(f) ==
    LET n == f[1]
        d == f[2]
        whole == Abs(n) \div d
        frac == FracStr(Abs(n) % d, d, 16)
    IN  (IF n < 0 THEN <<45>> ELSE <<>>) \o NatStr(whole) \o <<46>>
        \o (IF frac = <<>> THEN Digit(0) ELSE frac)

UnitText == <<85, 110, 105, 116>>
TrueText == <<84, 114, 117, 101>>
FalseText == <<70, 97, 108, 115, 101>>
NoneText == <<78, 111, 110, 101>>

Format(v) ==
    CASE v.py = "int" -> IntStr(v.val)
      [] v.py = "bool" -> IF v.val THEN TrueText ELSE FalseText
      [] v.py = "str" -> v.val
      [] v.py = "float" -> FloatStr(v.val)
      [] v.py = "NoneType" -> NoneText

(***************************************************************************)
(* Host truth value of a value: bool(v).                                   *)
(***************************************************************************)
Truthy(v) ==
    CASE v.py = "NoneType" -> FALSE
      [] v.py = "bool" -> v.val
      [] v.py = "int" -> v.val # 0
      [] v.py = "float" -> v.val[1] # 0
      [] v.py = "str" -> v.val # <<>>
      [] v.py = "tuple" -> TRUE

\* a and b, a or b, not a of the host
PyAnd(a, b) == IF Truthy(a) THEN b ELSE a
PyOr(a, b) == IF Truthy(a) THEN a ELSE b
PyNot(a) == PyBool(~Truthy(a))

(***************************************************************************)
(* Main evaluation logic.                                                  *)
(***************************************************************************)
RECURSIVE Evaluate(_, _, _)
RECURSIVE SequenceLoop(_, _)
RECURSIVE WhileLoop(_, _, _, _, _)

\* operands that are both evaluated against the incoming state
MutOperandsStale(expression, state, world) ==
    LET l == Evaluate(expression.left, state, world)
    IN  IF l.exc # NoExc THEN l
        ELSE LET r == Evaluate(expression.right, state, l.world)
             IN  IF r.exc # NoExc THEN r
                 ELSE [exc |-> NoExc,
                       left_value |-> l.value, left_type |-> l.type,
                       right_value |-> r.value, right_type |-> r.type,
                       new_state |-> r.state, world |-> r.world]

\* the first two statements of every binary case: left against the incoming
\* state, right against the state the left returned
Operands(expression, state, world) ==
    LET l == Evaluate(expression.left, state, world)
    IN  IF l.exc # NoExc THEN l
        ELSE LET r == Evaluate(expression.right, l.state, l.world)
             IN  IF r.exc # NoExc THEN r
                 ELSE [exc |-> NoExc,
                       left_value |-> l.value, left_type |-> l.type,
                       right_value |-> r.value, right_type |-> r.type,
                       new_state |-> r.state, world |-> r.world]

CaseRen(expression, state, world) == Return(None, Unit, state, world)

CaseIntLiteral(expression, state, world) ==
    Return(expression.literal, Integer, state, world)

CaseFloatingPointLiteral(expression, state, world) ==
    Return(expression.literal, FloatingPoint, state, world)

CaseStringLiteral(expression, state, world) ==
    Return(expression.literal, String, state, world)

CaseBooleanLiteral(expression, state, world) ==
    Return(expression.literal, Boolean, state, world)

\* a print that writes the text of the value whatever the type
MutPrintIgnoresUnit(expression, state, world) ==
    LET p == Evaluate(expression.to_print, state, world)
    IN  IF p.exc # NoExc THEN p
        ELSE Return(p.value, p.type, p.state,
                    [p.world EXCEPT !.stdout = Append(@, Format(p.value))])

CasePrint(expression, state, world) ==
    LET p == Evaluate(expression.to_print, state, world)
    IN  IF p.exc # NoExc THEN p
        ELSE LET line == IF p.type = Unit THEN UnitText ELSE Format(p.value)
             IN  Return(p.value, p.type, p.state,
                        [p.world EXCEPT !.stdout = Append(@, line)])

\* a loop that goes on with the next element after one has failed
MutSequenceLoopContinues(exprs, last) ==
    IF exprs = <<>> THEN last
    ELSE LET r == Evaluate(Head(exprs), last.state, last.world)
         IN  IF r.exc # NoExc
             THEN SequenceLoop(Tail(exprs), [last EXCEPT !.world = r.world])
             ELSE SequenceLoop(Tail(exprs), r)

\* the for loop of the Sequence | Program case
SequenceLoop(exprs, last) ==
    IF exprs = <<>> THEN last
    ELSE LET r == Evaluate(Head(exprs), last.state, last.world)
         IN  IF r.exc # NoExc THEN r ELSE SequenceLoop(Tail(exprs), r)

\* a sequence that returns the state it was given instead of last_state
MutSequenceReturnsIncoming(expression, state, world) ==
    LET r == SequenceLoop(expression.exprs, Return(None, Unit, state, world))
    IN  IF r.exc # NoExc THEN r ELSE [r EXCEPT !.state = state]

CaseSequence(expression, state, world) ==
    SequenceLoop(expression.exprs, Return(None, Unit, state, world))

\* a read that takes a binding whose value is None for no binding
MutVariableNoneValue(expression, state, world) ==
    LET value == get_value(world.heap, state, expression.variable_name)
    IN  IF PyEq(value, None) \/ PyEq(value.val[1], None)
        THEN Raise(InterpSyntaxError, world)
        ELSE Return(value.val[1], value.val[2], state, world)

\* a read that puts the binding it found in front of the chain again
MutVariableRebinds(expression, state, world) ==
    LET value == get_value(world.heap, state, expression.variable_name)
    IN  IF PyEq(value, None) THEN Raise(InterpSyntaxError, world)
        ELSE LET n == set_value(world.heap, state, expression.variable_name,
                                value.val[1], value.val[2])
             IN  Return(value.val[1], value.val[2], n.state,
                        [world EXCEPT !.heap = n.heap])

CaseVariable(expression, state, world) ==
    LET value == get_value(world.heap, state, expression.variable_name)
    IN  IF PyEq(value, None) THEN Raise(InterpSyntaxError, world)
        ELSE Return(value.val[1], value.val[2], state, world)

\* an assignment that looks the name up in the incoming state
MutAssignLookupIncoming(expression, state, world) ==
    LET v == Evaluate(expression.value, state, world)
    IN  IF v.exc # NoExc THEN v
        ELSE LET variable_from_state ==
                     get_value(world.heap, state, expression.variable.variable_name)
                 variable_type ==
                     IF Truthy(variable_from_state) THEN variable_from_state.val[2]
                     ELSE NoType
             IN  IF TypeNe(v.type, variable_type) /\ TypeNe(variable_type, NoType)
                 THEN Raise(InterpTypeError, v.world)
                 ELSE LET n == set_value(v.world.heap, v.state,
                                         expression.variable.variable_name,
                                         v.value, v.type)
                      IN  Return(v.value, v.type, n.state,
                                 [v.world EXCEPT !.heap = n.heap])

\* an assignment that takes a name bound to a falsy value (None, 0) for an
\* unbound one
MutAssignOverUnit(expression, state, world) ==
    LET v == Evaluate(expression.value, state, world)
    IN  IF v.exc # NoExc THEN v
        ELSE LET variable_from_state ==
                     get_value(v.world.heap, v.state, expression.variable.variable_name)
                 variable_type ==
                     IF Truthy(variable_from_state) /\ Truthy(variable_from_state.val[1])
                     THEN variable_from_state.val[2]
                     ELSE NoType
             IN  IF TypeNe(v.type, variable_type) /\ TypeNe(variable_type, NoType)
                 THEN Raise(InterpTypeError, v.world)
                 ELSE LET n == set_value(v.world.heap, v.state,
                                         expression.variable.variable_name,
                                         v.value, v.type)
                      IN  Return(v.value, v.type, n.state,
                                 [v.world EXCEPT !.heap = n.heap])

CaseAssign(expression, state, world) ==
    LET v == Evaluate(expression.value, state, world)
    IN  IF v.exc # NoExc THEN v
        ELSE LET variable_from_state ==
                     get_value(v.world.heap, v.state, expression.variable.variable_name)
                 variable_type ==
                     IF Truthy(variable_from_state) THEN variable_from_state.val[2]
                     ELSE NoType
             IN  IF TypeNe(v.type, variable_type) /\ TypeNe(variable_type, NoType)
                 THEN Raise(InterpTypeError, v.world)
                 ELSE LET n == set_value(v.world.heap, v.state,
                                         expression.variable.variable_name,
                                         v.value, v.type)
                      IN  Return(v.value, v.type, n.state,
                                 [v.world EXCEPT !.heap = n.heap])

CaseAdd(expression, state, world) ==
    LET o == Operands(expression, state, world)
    IN  IF o.exc # NoExc THEN o
        ELSE IF TypeNe(o.left_type, o.right_type) THEN Raise(InterpTypeError, o.world)
        ELSE IF o.left_type \in {Integer, String, FloatingPoint}
             THEN Return(PyAdd(o.left_value, o.right_value), o.left_type,
                         o.new_state, o.world)
        ELSE Raise(InterpTypeError, o.world)

CaseSubtract(expression, state, world) ==
    LET o == Operands(expression, state, world)
    IN  IF o.exc # NoExc THEN o
        ELSE IF TypeNe(o.left_type, o.right_type) THEN Raise(InterpTypeError, o.world)
        ELSE IF o.left_type \in {Integer, FloatingPoint}
             THEN Return(PySub(o.left_value, o.right_value), o.left_type,
                         o.new_state, o.world)
        ELSE Raise(InterpTypeError, o.world)

CaseMultiply(expression, state, world) ==
    LET o == Operands(expression, state, world)
    IN  IF o.exc # NoExc THEN o
        ELSE IF TypeNe(o.left_type, o.right_type) THEN Raise(InterpTypeError, o.world)
        ELSE IF o.left_type \in {Integer, FloatingPoint}
             THEN Return(PyMul(o.left_value, o.right_value), o.left_type,
                         o.new_state, o.world)
        ELSE Raise(InterpTypeError, o.world)

CaseDivide(expression, state, world) ==
    LET o == Operands(expression, state, world)
    IN  IF o.exc # NoExc THEN o
        ELSE IF TypeNe(o.left_type, o.right_type) THEN Raise(InterpTypeError, o.world)
        ELSE IF o.left_type = FloatingPoint
             THEN IF IsZero(o.right_value) THEN Raise(ZeroDivisionError, o.world)
                  ELSE Return(PyTrueDiv(o.left_value, o.right_value), o.left_type,
                              o.new_state, o.world)
        ELSE IF o.left_type = Integer
             THEN IF IsZero(o.right_value) THEN Raise(ZeroDivisionError, o.world)
                  ELSE Return(PyFloorDiv(o.left_value, o.right_value), o.left_type,
                              o.new_state, o.world)
        ELSE Raise(InterpTypeError, o.world)

\* an and without the check that the operand types agree
MutAndSkipsMismatch(expression, state, world) ==
    LET o == Operands(expression, state, world)
    IN  IF o.exc # NoExc THEN o
        ELSE IF o.left_type = Boolean
             THEN Return(PyAnd(o.left_value, o.right_value), o.left_type,
                         o.new_state, o.world)
        ELSE Raise(InterpTypeError, o.world)

CaseAnd(expression, state, world) ==
    LET o == Operands(expression, state, world)
    IN  IF o.exc # NoExc THEN o
        ELSE IF TypeNe(o.left_type, o.right_type) THEN Raise(InterpTypeError, o.world)
        ELSE IF o.left_type = Boolean
             THEN Return(PyAnd(o.left_value, o.right_value), o.left_type,
                         o.new_state, o.world)
        ELSE Raise(InterpTypeError, o.world)

\* an or that returns a true left operand without evaluating the right one
MutOrShortCircuits(expression, state, world) ==
    LET l == Evaluate(expression.left, state, world)
    IN  IF l.exc # NoExc THEN l
        ELSE IF l.type = Boolean /\ Truthy(l.value)
             THEN Return(l.value, l.type, l.state, l.world)
        ELSE LET o == Operands(expression, state, world)
             IN  IF o.exc # NoExc THEN o
                 ELSE IF TypeNe(o.left_type, o.right_type)
                      THEN Raise(InterpTypeError, o.world)
                 ELSE IF o.left_type = Boolean
                      THEN Return(PyOr(o.left_value, o.right_value), o.left_type,
                                  o.new_state, o.world)
                 ELSE Raise(InterpTypeError, o.world)

CaseOr(expression, state, world) ==
    LET o == Operands(expression, state, world)
    IN  IF o.exc # NoExc THEN o
        ELSE IF TypeNe(o.left_type, o.right_type) THEN Raise(InterpTypeError, o.world)
        ELSE IF o.left_type = Boolean
             THEN Return(PyOr(o.left_value, o.right_value), o.left_type,
                         o.new_state, o.world)
        ELSE Raise(InterpTypeError, o.world)

CaseNot(expression, state, world) ==
    LET e == Evaluate(expression.expr, state, world)
    IN  IF e.exc # NoExc THEN e
        ELSE IF TypeNe(e.type, Boolean) THEN Raise(InterpTypeError, e.world)
        ELSE Return(PyNot(e.value), Boolean, e.state, e.world)

\* an if that evaluates both branches and then picks one result
MutIfEvaluatesBoth(expression, state, world) ==
    LET c == Evaluate(expression.condition, state, world)
    IN  IF c.exc # NoExc THEN c
        ELSE IF TypeNe(c.type, Boolean) THEN Raise(InterpTypeError, c.world)
        ELSE LET t == Evaluate(expression.true, c.state, c.world)
             IN  IF t.exc # NoExc THEN t
                 ELSE LET f == Evaluate(expression.false, c.state, t.world)
                      IN  IF f.exc # NoExc THEN f
                          ELSE IF PyEq(c.value, PyBool(TRUE))
                               THEN [t EXCEPT !.world = f.world]
                          ELSE f

CaseIf(expression, state, world) ==
    LET c == Evaluate(expression.condition, state, world)
    IN  IF c.exc # NoExc THEN c
        ELSE IF TypeNe(c.type, Boolean) THEN Raise(InterpTypeError, c.world)
        ELSE IF PyEq(c.value, PyBool(TRUE))
             THEN Evaluate(expression.true, c.state, c.world)
        ELSE Evaluate(expression.false, c.state, c.world)

CaseLt(expression, state, world) ==
    LET o == Operands(expression, state, world)
    IN  IF o.exc # NoExc THEN o
        ELSE IF TypeNe(o.left_type, o.right_type) THEN Raise(InterpTypeError, o.world)
        ELSE IF o.left_type \in {Integer, Boolean, String, FloatingPoint}
             THEN Return(PyBool(PyLt(o.left_value, o.right_value)), Boolean,
                         o.new_state, o.world)
        ELSE IF o.left_type = Unit
             THEN Return(PyBool(FALSE), Boolean, o.new_state, o.world)
        ELSE Raise(InterpTypeError, o.world)

CaseLte(expression, state, world) ==
    LET o == Operands(expression, state, world)
    IN  IF o.exc # NoExc THEN o
        ELSE IF TypeNe(o.left_type, o.right_type) THEN Raise(InterpTypeError, o.world)
        ELSE IF PyEq(o.left_value, None) /\ PyEq(o.right_value, None)
             THEN Return(PyBool(TRUE), Boolean, o.new_state, o.world)
        ELSE IF o.left_type \in {Integer, String, FloatingPoint}
             THEN Return(PyBool(PyLe(o.left_value, o.right_value)), Boolean,
                         o.new_state, o.world)
        ELSE IF o.left_type = Boolean
             THEN Return(PyBool(PyEq(o.left_value, o.right_value)), Boolean,
                         o.new_state, o.world)
        ELSE IF o.left_type = Unit
             THEN Return(PyBool(FALSE), Boolean, o.new_state, o.world)
        ELSE Raise(InterpTypeError, o.world)

CaseGt(expression, state, world) ==
    LET o == Operands(expression, state, world)
    IN  IF o.exc # NoExc THEN o
        ELSE IF TypeNe(o.left_type, o.right_type) THEN Raise(InterpTypeError, o.world)
        ELSE IF o.left_type \in {Integer, Boolean, String, FloatingPoint}
             THEN Return(PyBool(PyGt(o.left_value, o.right_value)), Boolean,
                         o.new_state, o.world)
        ELSE IF o.left_type = Unit
             THEN Return(PyBool(FALSE), Boolean, o.new_state, o.world)
        ELSE Raise(InterpTypeError, o.world)

CaseGte(expression, state, world) ==
    LET o == Operands(expression, state, world)
    IN  IF o.exc # NoExc THEN o
        ELSE IF TypeNe(o.left_type, o.right_type) THEN Raise(InterpTypeError, o.world)
        ELSE IF PyEq(o.left_value, None) /\ PyEq(o.right_value, None)
             THEN Return(PyBool(TRUE), Boolean, o.new_state, o.world)
        ELSE IF o.left_type \in {Integer, Boolean, String, FloatingPoint}
             THEN Return(PyBool(PyGe(o.left_value, o.right_value)), Boolean,
                         o.new_state, o.world)
        ELSE IF o.left_type = Unit
             THEN Return(PyBool(FALSE), Boolean, o.new_state, o.world)
        ELSE Raise(InterpTypeError, o.world)

\* eq without the shortcut for two None values
MutEqNoShortcut(expression, state, world) ==
    LET o == Operands(expression, state, world)
    IN  IF o.exc # NoExc THEN o
        ELSE IF TypeNe(o.left_type, o.right_type) THEN Raise(InterpTypeError, o.world)
        ELSE IF o.left_type \in {Integer, Boolean, String, FloatingPoint}
             THEN Return(PyBool(PyEq(o.left_value, o.right_value)), Boolean,
                         o.new_state, o.world)
        ELSE IF o.left_type = Unit
             THEN Return(PyBool(FALSE), Boolean, o.new_state, o.world)
        ELSE Raise(InterpTypeError, o.world)

CaseEq(expression, state, world) ==
    LET o == Operands(expression, state, world)
    IN  IF o.exc # NoExc THEN o
        ELSE IF TypeNe(o.left_type, o.right_type) THEN Raise(InterpTypeError, o.world)
        ELSE IF PyEq(o.left_value, None) /\ PyEq(o.right_value, None)
             THEN Return(PyBool(TRUE), Boolean, o.new_state, o.world)
        ELSE IF o.left_type \in {Integer, Boolean, String, FloatingPoint}
             THEN Return(PyBool(PyEq(o.left_value, o.right_value)), Boolean,
                         o.new_state, o.world)
        ELSE IF o.left_type = Unit
             THEN Return(PyBool(FALSE), Boolean, o.new_state, o.world)
        ELSE Raise(InterpTypeError, o.world)

CaseNe(expression, state, world) ==
    LET o == Operands(expression, state, world)
    IN  IF o.exc # NoExc THEN o
        ELSE IF TypeNe(o.left_type, o.right_type) THEN Raise(InterpTypeError, o.world)
        ELSE IF o.left_type \in {Integer, Boolean, String, FloatingPoint}
             THEN Return(PyBool(PyNe(o.left_value, o.right_value)), Boolean,
                         o.new_state, o.world)
        ELSE IF o.left_type = Unit
             THEN Return(PyBool(FALSE), Boolean, o.new_state, o.world)
        ELSE Raise(InterpTypeError, o.world)

\* a loop whose next condition does not see the state the body returned
MutWhileLoopDropsBodyState(condition, body, new_state, world, left) ==
    LET c == Evaluate(condition, new_state, world)
    IN  IF c.exc # NoExc THEN c
        ELSE IF TypeNe(c.type, Boolean) THEN Raise(InterpTypeError, c.world)
        ELSE IF PyNe(c.value, PyBool(TRUE))
             THEN Return(c.value, c.type, c.state, c.world)
        ELSE IF left = 0 THEN Raise(Running, c.world)
        ELSE LET b == Evaluate(body, c.state, c.world)
             IN  IF b.exc # NoExc THEN b
                 ELSE WhileLoop(condition, body, c.state, b.world, left - 1)

\* a loop that returns the state it gave the last condition, not the one the
\* condition returned
MutWhileLoopDropsConditionState(condition, body, new_state, world, left) ==
    LET c == Evaluate(condition, new_state, world)
    IN  IF c.exc # NoExc THEN c
        ELSE IF TypeNe(c.type, Boolean) THEN Raise(InterpTypeError, c.world)
        ELSE IF PyNe(c.value, PyBool(TRUE))
             THEN Return(c.value, c.type, new_state, c.world)
        ELSE IF left = 0 THEN Raise(Running, c.world)
        ELSE LET b == Evaluate(body, c.state, c.world)
             IN  IF b.exc # NoExc THEN b
                 ELSE WhileLoop(condition, body, b.state, b.world, left - 1)

\* a loop that checks the type of its condition before the first iteration only
MutWhileLoopGuardsOnce(condition, body, new_state, world, left) ==
    LET c == Evaluate(condition, new_state, world)
    IN  IF c.exc # NoExc THEN c
        ELSE IF left = MaxIter /\ TypeNe(c.type, Boolean)
             THEN Raise(InterpTypeError, c.world)
        ELSE IF PyNe(c.value, PyBool(TRUE))
             THEN Return(c.value, c.type, c.state, c.world)
        ELSE IF left = 0 THEN Raise(Running, c.world)
        ELSE LET b == Evaluate(body, c.state, c.world)
             IN  IF b.exc # NoExc THEN b
                 ELSE WhileLoop(condition, body, b.state, b.world, left - 1)

\* the while True loop of the While case; left counts the body evaluations
\* the model still follows
WhileLoop(condition, body, new_state, world, left) ==
    LET c == Evaluate(condition, new_state, world)
    IN  IF c.exc # NoExc THEN c
        ELSE IF TypeNe(c.type, Boolean) THEN Raise(InterpTypeError, c.world)
        ELSE IF PyNe(c.value, PyBool(TRUE))
             THEN Return(c.value, c.type, c.state, c.world)
        ELSE IF left = 0 THEN Raise(Running, c.world)
        ELSE LET b == Evaluate(body, c.state, c.world)
             IN  IF b.exc # NoExc THEN b
                 ELSE WhileLoop(condition, body, b.state, b.world, left - 1)

CaseWhile(expression, state, world) ==
    WhileLoop(expression.condition, expression.body, state, world, MaxIter)

CaseUnhandled(expression, state, world) == Raise(InterpSyntaxError, world)

Evaluate(expression, state, world0) ==
    LET world == Enter(world0, expression)
        kind == expression.kind
    IN  CASE kind = "Ren" -> CaseRen(expression, state, world)
          [] kind = "IntLiteral" -> CaseIntLiteral(expression, state, world)
          [] kind = "FloatingPointLiteral" ->
               CaseFloatingPointLiteral(expression, state, world)
          [] kind = "StringLiteral" -> CaseStringLiteral(expression, state, world)
          [] kind = "BooleanLiteral" -> CaseBooleanLiteral(expression, state, world)
          [] kind = "Print" -> CasePrint(expression, state, world)
          [] kind \in {"Sequence", "Program"} -> CaseSequence(expression, state, world)
          [] kind = "Variable" -> CaseVariable(expression, state, world)
          [] kind = "Assign" -> CaseAssign(expression, state, world)
          [] kind = "Add" -> CaseAdd(expression, state, world)
          [] kind = "Subtract" -> CaseSubtract(expression, state, world)
          [] kind = "Multiply" -> CaseMultiply(expression, state, world)
          [] kind = "Divide" -> CaseDivide(expression, state, world)
          [] kind = "And" -> CaseAnd(expression, state, world)
          [] kind = "Or" -> CaseOr(expression, state, world)
          [] kind = "Not" -> CaseNot(expression, state, world)
          [] kind = "If" -> CaseIf(expression, state, world)
          [] kind = "Lt" -> CaseLt(expression, state, world)
          [] kind = "Lte" -> CaseLte(expression, state, world)
          [] kind = "Gt" -> CaseGt(expression, state, world)
          [] kind = "Gte" -> CaseGte(expression, state, world)
          [] kind = "Eq" -> CaseEq(expression, state, world)
          [] kind = "Ne" -> CaseNe(expression, state, world)
          [] kind = "While" -> CaseWhile(expression, state, world)
          [] OTHER -> CaseUnhandled(expression, state, world)

(***************************************************************************)
(* run_stimpl(Program(exprs)): the state of the Program loop.              *)
(***************************************************************************)
VARIABLES
    pc,          \* "loop": in the for loop; "returned"; "raised"
    expr,        \* the element of exprs the loop evaluated last
    last_value,  \* the loop's last_value, last_type, last_state
    last_type,
    last_state,
    world,       \* heap, standard output and call log of the process
    exc,         \* the exception that left run_stimpl, NoExc if none
    call         \* the state and world the last evaluate call was given

vars == <<pc, expr, last_value, last_type, last_state, world, exc, call>>

NoExpr == [kind |-> "NoExpr"]

Init ==
    /\ pc = "loop"
    /\ expr = NoExpr
    /\ last_value = None
    /\ last_type = Unit
    /\ last_state = EmptyState
    /\ world = NewWorld
    /\ exc = NoExc
    /\ call = [state |-> EmptyState, world |-> NewWorld]

\* one iteration of the for loop: last_value, last_type, last_state =
\* evaluate(expr, last_state).  more: further elements follow, otherwise the
\* loop ends and run_stimpl returns the last result.
Iterate(e, more) ==
    LET r == Evaluate(e, last_state, world)
    IN  /\ pc = "loop"
        /\ expr' = e
        /\ call' = [state |-> last_state, world |-> world]
        /\ world' = r.world
        /\ exc' = r.exc
        /\ IF r.exc # NoExc
           THEN /\ pc' = "raised"
                /\ UNCHANGED <<last_value, last_type, last_state>>
           ELSE /\ pc' = IF more THEN "loop" ELSE "returned"
                /\ last_value' = r.value
                /\ last_type' = r.type
                /\ last_state' = r.state

(***************************************************************************)
(* The elements the program is drawn from.                                 *)
(***************************************************************************)
Names == {"x", "y"}
Variables == {Variable(n) : n \in Names}
X == Variable("x")
Y == Variable("y")

\* "a", "ab", "b"
StrA == <<97>>
StrAB == <<97, 98>>
StrB == <<98>>

IntLiterals == {IntLiteral(n) : n \in {-7, 0, 2, 7}}
BooleanLiterals == {BooleanLiteral(b) : b \in BOOLEAN}
StringLiterals == {StringLiteral(t) : t \in {<<>>, StrA, StrAB}}
FloatingPointLiterals == {FloatingPointLiteral(n, 2) : n \in {0, 4, 14}}
Literals ==
    {Ren} \cup IntLiterals \cup BooleanLiterals \cup StringLiterals
          \cup FloatingPointLiterals
Atoms == Literals \cup Variables

\* the literals the leading assignments bind
SetupLiterals == {Ren, IntLiteral(0), IntLiteral(1), BooleanLiteral(TRUE)}

\* an expression of type Unit that is no literal, and assignments as operands
EmptySequence == Sequence(<<>>)
AssignOperands == {Assign(X, IntLiteral(1)), Assign(X, BooleanLiteral(TRUE)), Assign(X, Ren)}

\* operand pairs of the binary constructs: two literals of one kind, a
\* variable against an atom, Unit-typed operands, operands of different
\* kinds, and an assignment beside a read of the assigned name
SameKindPairs == {p \in Literals \X Literals : p[1].kind = p[2].kind}
VariablePairs ==
    ({X} \X (SetupLiterals \cup Variables)) \cup (SetupLiterals \X {X})
UnitPairs == {Ren, EmptySequence, X} \X {Ren, EmptySequence, X}
MixedPairs ==
    {<<IntLiteral(1), StringLiteral(StrA)>>, <<BooleanLiteral(TRUE), IntLiteral(1)>>,
     <<Ren, IntLiteral(0)>>, <<FloatingPointLiteral(4, 2), IntLiteral(2)>>,
     <<StringLiteral(StrA), Ren>>}
ThreadingPairs == (AssignOperands \X {X}) \cup ({X} \X AssignOperands)
LiteralPairs == SameKindPairs \cup MixedPairs
OpenPairs == VariablePairs \cup UnitPairs \cup ThreadingPairs
OperandPairs == LiteralPairs \cup OpenPairs


\* operands of and, or: a Boolean literal on the left, on the right an
\* assignment, a print, and operands that are not Boolean
LogicPairs ==
    BooleanLiterals
    \X {Assign(X, BooleanLiteral(TRUE)), PrintNode(BooleanLiteral(FALSE)),
        PrintNode(IntLiteral(7)), IntLiteral(1), Ren}

\* elements of a nested sequence, branches of an if, bodies of a while
Effects ==
    {Assign(X, IntLiteral(1)), Assign(Y, StringLiteral(StrB)),
     PrintNode(IntLiteral(7)), PrintNode(X), Y, IntLiteral(2),
     Add(X, IntLiteral(1)), Add(IntLiteral(1), StringLiteral(StrA))}
Branches ==
    {Assign(X, IntLiteral(1)), PrintNode(IntLiteral(7)), Y, StringLiteral(StrA)}

SequenceElements ==
    {Sequence(<<>>), Program(<<>>)}
    \cup {Sequence(<<a>>) : a \in Effects}
    \cup {Sequence(<<a, b>>) : a \in Branches, b \in Effects}
    \cup {Sequence(<<a, b>>) : a \in Effects, b \in Branches}
    \cup {Program(<<a, b>>) : a \in {Assign(X, IntLiteral(1))}, b \in Effects}

\* values a final assignment stores: atoms, a sum that reads the name, and
\* sequences that bind the name on the way
AssignValues ==
    Atoms
    \cup {Add(X, IntLiteral(1)), Add(Y, IntLiteral(1)), EmptySequence,
          PrintNode(IntLiteral(7)),
          Sequence(<<Assign(X, IntLiteral(1)), StringLiteral(StrA)>>),
          Sequence(<<Assign(X, IntLiteral(1)), IntLiteral(2)>>),
          Sequence(<<Assign(X, Ren), IntLiteral(2)>>),
          Sequence(<<Assign(X, Ren), Ren>>),
          Assign(Y, IntLiteral(1))}

\* what a final print prints: atoms, an expression of type Unit, an operand
\* that prints, and one that binds a name
PrintOperands ==
    Atoms \cup {EmptySequence,
                Sequence(<<PrintNode(IntLiteral(2)), StringLiteral(StrAB)>>),
                Assign(X, IntLiteral(7))}

Conditions ==
    {BooleanLiteral(TRUE), BooleanLiteral(FALSE), X, IntLiteral(1), Ren,
     Lt(X, IntLiteral(1)), Not(X), Assign(Y, BooleanLiteral(FALSE)),
     PrintNode(BooleanLiteral(TRUE))}

\* the counter loop: while(lt(variable(i), int(N)), assign(i, add(variable(i), int(1))))
CounterLoop(i, N) ==
    While(Lt(Variable(i), IntLiteral(N)),
          Assign(Variable(i), Add(Variable(i), IntLiteral(1))))

\* a condition that is Boolean while x < N and an Integer afterwards
LateFault(N) == If(Lt(X, IntLiteral(N)), BooleanLiteral(TRUE), IntLiteral(5))

\* a loop whose condition binds y and whose body reads it
BindingLoop ==
    While(Sequence(<<Assign(Y, IntLiteral(1)), Lt(X, IntLiteral(1))>>),
          Assign(X, Add(X, Y)))

WhileElements ==
    {While(c, b) : c \in Conditions,
                   b \in {Assign(X, IntLiteral(1)), PrintNode(IntLiteral(7)), Y,
                          Assign(X, BooleanLiteral(FALSE))}}
    \cup {CounterLoop(i, N) : i \in Names, N \in 0..(MaxIter + 1)}
    \cup {Sequence(<<Assign(Variable(i), IntLiteral(0)), CounterLoop(i, N)>>) :
              i \in Names, N \in 0..MaxIter}
    \cup {While(LateFault(N), Assign(X, Add(X, IntLiteral(1)))) : N \in 0..2}
    \cup {BindingLoop}
    \cup {While(Lt(X, IntLiteral(N)),
                Sequence(<<PrintNode(X), Assign(X, Add(X, IntLiteral(1)))>>)) :
              N \in 0..2}

(***************************************************************************)
(* Actions: one iteration of the Program loop per construct.  A leading    *)
(* assignment of a literal is followed by further elements; any other      *)
(* element is the last of the program.  A binary construct over two        *)
(* literals reads no variable and is run as a program of its own.          *)
(***************************************************************************)
Final(e) == Iterate(e, FALSE)

Pairs == IF world.heap = <<>> THEN OperandPairs ELSE OpenPairs

SetupAssign ==
    /\ pc = "loop"
    /\ Len(world.heap) < MaxSetup
    /\ \E n \in Names, l \in SetupLiterals : Iterate(Assign(Variable(n), l), TRUE)

EvalLiteral ==
    /\ pc = "loop"
    /\ \E e \in Literals : Final(e)

EvalVariable ==
    /\ pc = "loop"
    /\ \E e \in Variables : Final(e)

EvalPrint ==
    /\ pc = "loop"
    /\ \E a \in PrintOperands : Final(PrintNode(a))

EvalSequence ==
    /\ pc = "loop"
    /\ \E e \in SequenceElements : Final(e)

EvalAssign ==
    /\ pc = "loop"
    /\ \E n \in Names, v \in AssignValues : Final(Assign(Variable(n), v))

EvalArith ==
    /\ pc = "loop"
    /\ \E k \in ArithKinds, p \in Pairs : Final(Binary(k, p[1], p[2]))

EvalLogic ==
    /\ pc = "loop"
    /\ \E k \in LogicKinds, p \in Pairs \cup LogicPairs : Final(Binary(k, p[1], p[2]))

EvalNot ==
    /\ pc = "loop"
    /\ \E a \in Atoms : Final(Not(a))

EvalIf ==
    /\ pc = "loop"
    /\ \E c \in Conditions, t \in Branches, f \in Branches : Final(If(c, t, f))

EvalCompare ==
    /\ pc = "loop"
    /\ \E k \in CompareKinds, p \in Pairs : Final(Binary(k, p[1], p[2]))

EvalWhile ==
    /\ pc = "loop"
    /\ \E e \in WhileElements : Final(e)

EvalUnhandled ==
    /\ pc = "loop"
    /\ Final([kind |-> "Unhandled"])

Next ==
    \/ SetupAssign
    \/ EvalLiteral
    \/ EvalVariable
    \/ EvalPrint
    \/ EvalSequence
    \/ EvalAssign
    \/ EvalArith
    \/ EvalLogic
    \/ EvalNot
    \/ EvalIf
    \/ EvalCompare
    \/ EvalWhile
    \/ EvalUnhandled

Spec == Init /\ [][Next]_vars

(***************************************************************************)
(* Properties.  They are read in the state after an iteration: expr is the *)
(* element, call the state and world evaluate was given, last_value,       *)
(* last_type, last_state and world what it left, exc the exception.        *)
(***************************************************************************)
\* the bindings of the environment the call was given and of the one it left
EnvBefore == Chain(call.world.heap, call.state)
EnvAfter == Chain(world.heap, last_state)

\* the world evaluate hands to the cases of the element: the element is logged
Entered == Enter(call.world, expr)

\* the nodes evaluate was entered on during the last iteration
NewCalls == SubSeq(world.calls, Len(call.world.calls) + 1, Len(world.calls))
Count(seq, k) == Cardinality({i \in 1..Len(seq) : seq[i] = k})

\* the lines the last iteration wrote
NewLines == SubSeq(world.stdout, Len(call.world.stdout) + 1, Len(world.stdout))

Max(S) == CHOOSE a \in S : \A b \in S : b <= a
Min(S) == CHOOSE a \in S : \A b \in S : a <= b

\* the name has no binding in the environment the call was given
Unbound(name) == \A i \in 1..Len(EnvBefore) : EnvBefore[i].name # name

\* l <= r, l >= r, l == r by the order of the host values
NaturalOrder(kind, a, b) ==
    CASE kind = "Lte" -> PyLe(a, b)
      [] kind = "Gte" -> PyGe(a, b)
      [] kind = "Eq" -> PyEq(a, b)

\* C1: lte, gte and eq over two operands of one type T in {Integer, Boolean,
\* String, FloatingPoint} yield (l <= r, Boolean), (l >= r, Boolean) and
\* (l == r, Boolean) by the natural order of the values, false < true for
\* Boolean.  Stated on two literals of one kind.
C1_SameTypeComparison ==
    (/\ expr.kind \in {"Lte", "Gte", "Eq"}
     /\ <<expr.left, expr.right>> \in SameKindPairs
     /\ expr.left.kind # "Ren")
    => /\ exc = NoExc
       /\ last_type = Boolean
       /\ last_value = PyBool(NaturalOrder(expr.kind, expr.left.literal,
                                           expr.right.literal))

\* C2: assign(name, e) evaluates e to (v, vt, env1) and looks name up in env1;
\* if the most recent binding of name in env1 has a type other than vt the
\* assignment fails with a TypeFault and returns nothing, otherwise it returns
\* (v, vt, env1 extended with (name, v, vt)).
C2_TypeLockIn ==
    expr.kind = "Assign" =>
        LET name == expr.variable.variable_name
            v == Evaluate(expr.value, call.state, Entered)
        IN  v.exc = NoExc =>
                LET env1 == Chain(v.world.heap, v.state)
                    hits == {i \in 1..Len(env1) : env1[i].name = name}
                IN  IF hits # {} /\ env1[Min(hits)].type # v.type
                    THEN exc = InterpTypeError /\ pc = "raised"
                    ELSE /\ exc = NoExc
                         /\ last_type = v.type
                         /\ last_value = v.value
                         /\ EnvAfter = <<[name |-> name, value |-> v.value,
                                          type |-> v.type]>> \o env1

\* the binding that locks the type was created inside e itself
C2_Witness ==
    /\ expr = Assign(X, Sequence(<<Assign(X, IntLiteral(1)), StringLiteral(StrA)>>))
    /\ Unbound("x")
    /\ exc = InterpTypeError

\* C3: every binary construct evaluates its left operand against the incoming
\* environment, its right operand against the environment the left returned,
\* and returns the environment of the right; add(assign(x, 1), variable(x)) is
\* (2, Integer) and add(variable(x), assign(x, 1)) an unbound-variable
\* SyntaxFault when x has no binding.
C3_LeftToRightThreading ==
    /\ expr.kind \in BinaryKinds =>
           LET l == Evaluate(expr.left, call.state, Entered)
           IN  IF l.exc # NoExc THEN exc = l.exc /\ world = l.world
               ELSE LET r == Evaluate(expr.right, l.state, l.world)
                    IN  IF r.exc # NoExc THEN exc = r.exc /\ world = r.world
                        ELSE /\ world = r.world
                             /\ exc = NoExc => last_state = r.state
    /\ \A k \in BinaryKinds :
           /\ (expr = Binary(k, Assign(X, IntLiteral(1)), X) /\ Unbound("x"))
              => exc # InterpSyntaxError
           /\ (expr = Binary(k, X, Assign(X, IntLiteral(1))) /\ Unbound("x"))
              => exc = InterpSyntaxError
    /\ (expr = Add(Assign(X, IntLiteral(1)), X) /\ Unbound("x"))
       => exc = NoExc /\ last_type = Integer /\ last_value = PyInt(2)

C3_Witness ==
    /\ expr = Add(Assign(X, IntLiteral(1)), X)
    /\ call.state = EmptyState
    /\ exc = NoExc
    /\ last_value = PyInt(2)
    /\ EnvAfter = <<[name |-> "x", value |-> PyInt(1), type |-> Integer]>>

\* C4: variable-reference(name) returns the value and type of the most
\* recently executed assignment to name, the node of the heap allocated last
\* among those that carry the name, and the environment unchanged;
\* sequence[assign(x, 1), add(variable(x), 1)] is (2, Integer).
C4_ShadowingByRecency ==
    /\ expr.kind = "Variable" =>
           LET heap == call.world.heap
               nodes == {a \in 1..Len(heap) :
                             heap[a].variable_name = expr.variable_name}
           IN  nodes # {} =>
                   /\ exc = NoExc
                   /\ last_value = heap[Max(nodes)].value.val[1]
                   /\ last_type = heap[Max(nodes)].value.val[2]
                   /\ last_state = call.state
                   /\ world.heap = heap
    /\ (/\ expr = Sequence(<<Assign(X, IntLiteral(1)), Add(X, IntLiteral(1))>>)
        /\ \A i \in 1..Len(EnvBefore) :
               EnvBefore[i].name = "x" => EnvBefore[i].type = Integer)
       => exc = NoExc /\ last_type = Integer /\ last_value = PyInt(2)

\* x was assigned twice, 0 and then 1, and the read returns 1
C4_Witness ==
    /\ expr = X
    /\ EnvBefore = <<[name |-> "x", value |-> PyInt(1), type |-> Integer],
                     [name |-> "x", value |-> PyInt(0), type |-> Integer]>>
    /\ exc = NoExc
    /\ last_value = PyInt(1)

\* the element is a comparison and both its operands evaluate to type Unit
C5_BothUnit ==
    /\ expr.kind \in CompareKinds
    /\ LET l == Evaluate(expr.left, call.state, Entered)
       IN  /\ l.exc = NoExc
           /\ l.type = Unit
           /\ LET r == Evaluate(expr.right, l.state, l.world)
              IN  r.exc = NoExc /\ r.type = Unit

\* C5: when both operands of a comparison evaluate to type Unit (the unit
\* literal, an empty sequence, a variable bound to Unit), eq, lte and gte yield
\* (true, Boolean), ne, lt and gt yield (false, Boolean), and none fails.
C5_UnitComparisons ==
    C5_BothUnit =>
        /\ exc = NoExc
        /\ last_type = Boolean
        /\ last_value = PyBool(expr.kind \in {"Eq", "Lte", "Gte"})

\* gte of a variable bound to Unit and an empty sequence
C5_Witness ==
    /\ expr = Gte(X, EmptySequence)
    /\ C5_BothUnit
    /\ last_value = PyBool(TRUE)

\* the counter loop returned with i bound to N after N evaluations of its body
\* and N + 1 of its condition, one node allocated per assignment
C6_LoopRan(i, N, assigns) ==
    /\ exc = NoExc
    /\ EnvAfter[1] = [name |-> i, value |-> PyInt(N), type |-> Integer]
    /\ Count(NewCalls, "Add") = N
    /\ Count(NewCalls, "Assign") = assigns
    /\ Count(NewCalls, "Lt") = N + 1
    /\ Count(NewCalls, "While") = 1
    /\ Len(EnvAfter) = Len(EnvBefore) + assigns

\* C6: for every N in 0..MaxIter, sequence[assign(i, 0), while(lt(variable(i),
\* int(N)), assign(i, add(variable(i), int(1))))] terminates with i bound to
\* (N, Integer); the body is evaluated N times and the condition N + 1 times.
\* The same holds of the loop alone when i is bound to 0.
C6_LoopTermination ==
    \A i \in Names, N \in 0..MaxIter :
        /\ (/\ expr = Sequence(<<Assign(Variable(i), IntLiteral(0)), CounterLoop(i, N)>>)
            /\ \A j \in 1..Len(EnvBefore) :
                   EnvBefore[j].name = i => EnvBefore[j].type = Integer)
           => C6_LoopRan(i, N, N + 1)
        /\ (/\ expr = CounterLoop(i, N)
            /\ EnvBefore # <<>>
            /\ EnvBefore[1] = [name |-> i, value |-> PyInt(0), type |-> Integer])
           => C6_LoopRan(i, N, N)

\* the loop of the longest run the model follows, from the empty environment
C6_Witness ==
    /\ expr = Sequence(<<Assign(X, IntLiteral(0)), CounterLoop("x", MaxIter)>>)
    /\ call.state = EmptyState
    /\ exc = NoExc
    /\ EnvAfter[1].value = PyInt(MaxIter)
    /\ Count(NewCalls, "Add") = MaxIter

\* the rounds of a loop: how it ends, and the state and world of the condition
\* that was false
RECURSIVE C7_Rounds(_, _, _, _, _)
C7_Rounds(c, body, state, w, left) ==
    LET cr == Evaluate(c, state, w)
    IN  IF cr.exc # NoExc \/ cr.type # Boolean THEN [end |-> "fault"]
        ELSE IF cr.value = PyBool(FALSE)
             THEN [end |-> "false", state |-> cr.state, world |-> cr.world]
        ELSE IF left = 0 THEN [end |-> "more"]
        ELSE LET br == Evaluate(body, cr.state, cr.world)
             IN  IF br.exc # NoExc THEN [end |-> "fault"]
                 ELSE C7_Rounds(c, body, br.state, br.world, left - 1)

\* C7: while(c, body) evaluates c against the current environment, each body
\* against the environment the preceding condition returned, each later
\* condition against the environment the preceding body returned; when c is
\* false it returns (false, Boolean, the environment that evaluation of c
\* returned); if c is false at first the body is never evaluated.
C7_WhileResult ==
    expr.kind = "While" =>
        LET rounds == C7_Rounds(expr.condition, expr.body, call.state, Entered, MaxIter)
            first == Evaluate(expr.condition, call.state, Entered)
        IN  /\ exc = NoExc <=> rounds.end = "false"
            /\ exc = NoExc =>
                   /\ last_value = PyBool(FALSE)
                   /\ last_type = Boolean
                   /\ last_state = rounds.state
                   /\ world = rounds.world
            /\ (first.exc = NoExc /\ first.type = Boolean /\ first.value = PyBool(FALSE))
               => world = first.world /\ last_state = first.state

\* the condition binds y, the body reads y and binds x, and the loop returns
\* the environment its second condition left: y, x, y on top of x
C7_Witness ==
    /\ expr = BindingLoop
    /\ EnvBefore = <<[name |-> "x", value |-> PyInt(0), type |-> Integer]>>
    /\ exc = NoExc
    /\ last_value = PyBool(FALSE)
    /\ Len(EnvAfter) = 4
    /\ EnvAfter[1].name = "y"
    /\ EnvAfter[2] = [name |-> "x", value |-> PyInt(1), type |-> Integer]

\* C8: extend returns a new environment whose head is the new binding and
\* whose tail is env; no node that existed changes, so a lookup of any name in
\* any environment obtained earlier returns what it returned before.
C8_EnvironmentImmutability ==
    /\ Len(world.heap) >= Len(call.world.heap)
    /\ SubSeq(world.heap, 1, Len(call.world.heap)) = call.world.heap
    /\ \A env \in 0..Len(call.world.heap), n \in Names :
           get_value(world.heap, env, n) = get_value(call.world.heap, env, n)
    /\ (expr.kind = "Assign" /\ expr.value \in Literals /\ exc = NoExc)
       => /\ last_state = Len(call.world.heap) + 1
          /\ Len(world.heap) = Len(call.world.heap) + 1
          /\ world.heap[last_state] =
                 State(expr.variable.variable_name, last_value, last_type, call.state)

\* x is 0 in the old environment and 1 in the new one
C8_Witness ==
    /\ expr = Assign(X, IntLiteral(1))
    /\ exc = NoExc
    /\ call.state # EmptyState
    /\ get_value(world.heap, call.state, "x") = PyTuple(PyInt(0), Integer)
    /\ get_value(world.heap, last_state, "x") = PyTuple(PyInt(1), Integer)

\* C9: variable-reference(name) fails with a SyntaxFault iff the environment
\* holds no binding of name; a name bound to the Unit value is read as
\* (absent, Unit, environment unchanged).
C9_UnboundRead ==
    expr.kind = "Variable" =>
        LET hits == {i \in 1..Len(EnvBefore) : EnvBefore[i].name = expr.variable_name}
        IN  /\ exc = InterpSyntaxError <=> hits = {}
            /\ exc \in {NoExc, InterpSyntaxError}
            /\ (hits # {} /\ EnvBefore[Min(hits)].type = Unit)
               => /\ exc = NoExc
                  /\ last_type = Unit
                  /\ last_value = None
                  /\ last_state = call.state
                  /\ world.heap = call.world.heap

C9_Witness ==
    /\ expr = X
    /\ EnvBefore # <<>>
    /\ EnvBefore[1] = [name |-> "x", value |-> None, type |-> Unit]
    /\ exc = NoExc
    /\ last_type = Unit

\* the language-level failures
Faults == {InterpSyntaxError, InterpTypeError}

\* the subexpression failed and the element failed with it, at once
C10_Propagates(sub) ==
    sub.exc \in Faults =>
        /\ exc = sub.exc
        /\ pc = "raised"
        /\ world = sub.world
        /\ last_state = call.state

RECURSIVE C10_Elements(_, _, _)
C10_Elements(exprs, state, w) ==
    exprs # <<>> =>
        LET r == Evaluate(Head(exprs), state, w)
        IN  /\ C10_Propagates(r)
            /\ r.exc = NoExc => C10_Elements(Tail(exprs), r.state, r.world)

\* C10: a SyntaxFault or TypeFault of a subexpression reaches the caller as
\* the same kind, with no result, and nothing that follows the failing node is
\* evaluated: the world is as the failing subexpression left it.  In a
\* sequence the elements after the first failing one write no line and bind no
\* name.
C10_FailurePropagation ==
    /\ expr.kind \in {"Sequence", "Program"} =>
           C10_Elements(expr.exprs, call.state, Entered)
    /\ expr.kind = "Print" => C10_Propagates(Evaluate(expr.to_print, call.state, Entered))
    /\ expr.kind = "Assign" => C10_Propagates(Evaluate(expr.value, call.state, Entered))
    /\ expr.kind = "Not" => C10_Propagates(Evaluate(expr.expr, call.state, Entered))
    /\ expr.kind \in {"If", "While"} =>
           C10_Propagates(Evaluate(expr.condition, call.state, Entered))
    /\ expr.kind \in BinaryKinds =>
           LET l == Evaluate(expr.left, call.state, Entered)
           IN  /\ C10_Propagates(l)
               /\ l.exc = NoExc => C10_Propagates(Evaluate(expr.right, l.state, l.world))
    /\ exc \in Faults => pc = "raised" /\ last_state = call.state
    /\ (expr.kind = "Sequence" /\ Len(expr.exprs) = 2
        /\ expr.exprs[1] = Add(IntLiteral(1), StringLiteral(StrA)))
       => /\ exc = InterpTypeError
          /\ NewLines = <<>>
          /\ world.heap = call.world.heap
          /\ NewCalls = <<"Sequence", "Add", "IntLiteral", "StringLiteral">>

\* the failing element is followed by a print, which writes nothing
C10_Witness ==
    /\ expr = Sequence(<<Add(IntLiteral(1), StringLiteral(StrA)), PrintNode(IntLiteral(7))>>)
    /\ exc = InterpTypeError
    /\ pc = "raised"
    /\ NewLines = <<>>

\* the elements from the i-th on, each against the environment the previous one
\* returned; prev is the result before the i-th
RECURSIVE C11_From(_, _, _)
C11_From(exprs, i, prev) ==
    IF i > Len(exprs) \/ prev.exc # NoExc THEN prev
    ELSE C11_From(exprs, i + 1, Evaluate(exprs[i], prev.state, prev.world))

\* C11: sequence/program(list) evaluates the elements in list order, each
\* against the environment the previous element returned; its result is the
\* (value, type, environment) of the last element, and an empty list yields
\* (absent, Unit, the incoming environment).
C11_SequenceResult ==
    expr.kind \in {"Sequence", "Program"} =>
        LET exprs == expr.exprs
            n == Len(exprs)
            end == C11_From(exprs, 1, Return(None, Unit, call.state, Entered))
        IN  /\ exc = end.exc
            /\ world = end.world
            /\ n = 0 => /\ exc = NoExc
                        /\ last_value = None
                        /\ last_type = Unit
                        /\ last_state = call.state
                        /\ world = Entered
            /\ (n > 0 /\ exc = NoExc) =>
                   LET before == C11_From(SubSeq(exprs, 1, n - 1), 1,
                                          Return(None, Unit, call.state, Entered))
                       last == Evaluate(exprs[n], before.state, before.world)
                   IN  /\ last_value = last.value
                       /\ last_type = last.type
                       /\ last_state = last.state
                       /\ EnvAfter = Chain(last.world.heap, last.state)
            /\ (n = 2 /\ exc = NoExc) =>
                   LET first == Evaluate(exprs[1], call.state, Entered)
                       second == Evaluate(exprs[2], first.state, first.world)
                   IN  /\ NewCalls = <<expr.kind>>
                                     \o SubSeq(first.world.calls,
                                               Len(Entered.calls) + 1,
                                               Len(first.world.calls))
                                     \o SubSeq(second.world.calls,
                                               Len(first.world.calls) + 1,
                                               Len(second.world.calls))
                       /\ last_value = second.value

\* the second element reads the name the first one bound, and the sequence
\* returns the second element's value and the first element's environment
C11_Witness ==
    /\ expr = Sequence(<<Assign(X, IntLiteral(1)), Add(X, IntLiteral(1))>>)
    /\ Unbound("x")
    /\ pc = "returned"
    /\ last_value = PyInt(2)
    /\ last_type = Integer
    /\ Len(EnvAfter) = Len(EnvBefore) + 1
    /\ EnvAfter[1] = [name |-> "x", value |-> PyInt(1), type |-> Integer]

\* the nodes entered while the call that turned world from into world to ran
C12_Calls(from, to) == SubSeq(to.calls, Len(from.calls) + 1, Len(to.calls))

\* C12: if(c, t, f) with c evaluating to Boolean evaluates exactly one branch,
\* t when c is true and f when c is false, against the environment c returned,
\* and returns that branch's result; the other branch is never evaluated, so
\* none of its assignments, prints or failures occur.
C12_ConditionalBranching ==
    expr.kind = "If" =>
        LET c == Evaluate(expr.condition, call.state, Entered)
        IN  (c.exc = NoExc /\ c.type = Boolean) =>
                LET taken == IF c.value = PyBool(TRUE) THEN expr.true ELSE expr.false
                    b == Evaluate(taken, c.state, c.world)
                IN  /\ exc = b.exc
                    /\ world = b.world
                    /\ NewCalls = <<"If">> \o C12_Calls(Entered, c.world)
                                           \o C12_Calls(c.world, b.world)
                    /\ exc = NoExc => /\ last_value = b.value
                                      /\ last_type = b.type
                                      /\ last_state = b.state
                    /\ (taken \in Literals /\ expr.condition \in Literals)
                       => /\ exc = NoExc
                          /\ NewLines = <<>>
                          /\ world.heap = call.world.heap
                          /\ last_state = call.state
                          /\ last_value = taken.literal

\* the condition is true, the first branch binds x, and the second branch,
\* a read of the unbound y, would have failed
C12_Witness ==
    /\ expr = If(BooleanLiteral(TRUE), Assign(X, IntLiteral(1)), Y)
    /\ Unbound("y")
    /\ pc = "returned"
    /\ last_value = PyInt(1)
    /\ Len(EnvAfter) = Len(EnvBefore) + 1

\* the first condition of a loop that is not Boolean, with the world it left,
\* if the loop gets that far
RECURSIVE C13_FirstNonBoolean(_, _, _, _, _)
C13_FirstNonBoolean(c, body, state, w, left) ==
    LET cr == Evaluate(c, state, w)
    IN  IF cr.exc # NoExc THEN [found |-> FALSE]
        ELSE IF cr.type # Boolean
             THEN [found |-> TRUE, world |-> cr.world, round |-> MaxIter - left]
        ELSE IF cr.value = PyBool(FALSE) \/ left = 0 THEN [found |-> FALSE]
        ELSE LET br == Evaluate(body, cr.state, cr.world)
             IN  IF br.exc # NoExc THEN [found |-> FALSE]
                 ELSE C13_FirstNonBoolean(c, body, br.state, br.world, left - 1)

\* C13: when the condition of if(c, t, f) evaluates to a non-Boolean type, or
\* the condition of while(c, body) does so on any iteration, the first or a
\* later one, evaluation fails with a TypeFault and no branch or body is
\* evaluated after that condition: the world is as the condition left it.
C13_ConditionGuard ==
    /\ expr.kind = "If" =>
           LET c == Evaluate(expr.condition, call.state, Entered)
           IN  (c.exc = NoExc /\ c.type # Boolean) =>
                   /\ exc = InterpTypeError
                   /\ pc = "raised"
                   /\ world = c.world
                   /\ last_state = call.state
    /\ expr.kind = "While" =>
           LET g == C13_FirstNonBoolean(expr.condition, expr.body, call.state,
                                        Entered, MaxIter)
           IN  g.found =>
                   /\ exc = InterpTypeError
                   /\ pc = "raised"
                   /\ world = g.world
                   /\ last_state = call.state
                   /\ Count(NewCalls, expr.body.kind) >= g.round
    /\ \A N \in 0..2 :
           (/\ expr = While(LateFault(N), Assign(X, Add(X, IntLiteral(1))))
            /\ EnvBefore # <<>>
            /\ EnvBefore[1] = [name |-> "x", value |-> PyInt(0), type |-> Integer])
           => /\ exc = InterpTypeError
              /\ Count(NewCalls, "Assign") = N
              /\ Count(NewCalls, "If") = N + 1
              /\ Len(world.heap) = Len(call.world.heap) + N

\* the condition is Boolean on the first two iterations and an Integer on the
\* third, after the body ran twice
C13_Witness ==
    /\ expr = While(LateFault(2), Assign(X, Add(X, IntLiteral(1))))
    /\ EnvBefore # <<>>
    /\ EnvBefore[1] = [name |-> "x", value |-> PyInt(0), type |-> Integer]
    /\ exc = InterpTypeError
    /\ pc = "raised"
    /\ Count(NewCalls, "Assign") = 2

\* "-7", "7.0", "0", "1", "2", "7"
C14_MinusSeven == <<45, 55>>
C14_SevenPointZero == <<55, 46, 48>>
C14_Zero == <<48>>
C14_One == <<49>>
C14_Two == <<50>>
C14_Seven == <<55>>

\* C14: every evaluation of a print(e) node emits exactly one line, after e
\* has been evaluated and before print returns; the line is "Unit" when e's
\* type is Unit and the value's text otherwise; print returns e's (value,
\* type, environment) unchanged; the emitted lines are in the order in which
\* the evaluator reaches the print nodes, a print inside a while body
\* emitting once per iteration.
C14_PrintEffectOrdering ==
    /\ expr.kind = "Print" =>
           LET e == Evaluate(expr.to_print, call.state, Entered)
           IN  IF e.exc # NoExc
               THEN exc = e.exc /\ world = e.world
               ELSE /\ exc = NoExc
                    /\ world.stdout =
                           Append(e.world.stdout,
                                  IF e.type = Unit THEN UnitText ELSE Format(e.value))
                    /\ world.heap = e.world.heap
                    /\ world.calls = e.world.calls
                    /\ last_value = e.value
                    /\ last_type = e.type
                    /\ last_state = e.state
    /\ exc = NoExc => Len(NewLines) = Count(NewCalls, "Print")
    /\ Len(NewLines) <= Count(NewCalls, "Print")
    /\ expr = PrintNode(IntLiteral(-7)) => NewLines = <<C14_MinusSeven>>
    /\ expr = PrintNode(FloatingPointLiteral(14, 2)) => NewLines = <<C14_SevenPointZero>>
    /\ expr = PrintNode(BooleanLiteral(TRUE)) => NewLines = <<TrueText>>
    /\ expr = PrintNode(StringLiteral(StrAB)) => NewLines = <<StrAB>>
    /\ expr \in {PrintNode(Ren), PrintNode(EmptySequence)} => NewLines = <<UnitText>>
    /\ (expr = PrintNode(X) /\ exc = NoExc /\ last_type = Unit) => NewLines = <<UnitText>>
    /\ expr = PrintNode(Sequence(<<PrintNode(IntLiteral(2)), StringLiteral(StrAB)>>))
       => NewLines = <<C14_Two, StrAB>>
    /\ (/\ expr = Sequence(<<PrintNode(IntLiteral(7)), PrintNode(X)>>)
        /\ EnvBefore # <<>>
        /\ EnvBefore[1] = [name |-> "x", value |-> PyInt(0), type |-> Integer])
       => NewLines = <<C14_Seven, C14_Zero>>
    /\ (/\ expr = While(Lt(X, IntLiteral(2)),
                        Sequence(<<PrintNode(X), Assign(X, Add(X, IntLiteral(1)))>>))
        /\ EnvBefore # <<>>
        /\ EnvBefore[1] = [name |-> "x", value |-> PyInt(0), type |-> Integer])
       => /\ exc = NoExc
          /\ NewLines = <<C14_Zero, C14_One>>

\* a print of a variable bound to the unit value writes the line Unit and
\* returns the unit value
C14_Witness ==
    /\ expr = PrintNode(X)
    /\ EnvBefore # <<>>
    /\ EnvBefore[1] = [name |-> "x", value |-> None, type |-> Unit]
    /\ pc = "returned"
    /\ NewLines = <<UnitText>>
    /\ last_value = None
    /\ last_type = Unit
    /\ last_state = call.state

\* the operand types an operator accepts
C15_Allowed(kind) ==
    CASE kind = "Add" -> {Integer, String, FloatingPoint}
      [] kind \in {"Subtract", "Multiply", "Divide"} -> {Integer, FloatingPoint}
      [] kind \in {"And", "Or"} -> {Boolean}

\* the operator type rules of the element, with the outcome the rules give
\* operands of one allowed type left to wellTyped
C15_Rules(wellTyped(_)) ==
    expr.kind \in ArithKinds \cup LogicKinds =>
        LET l == Evaluate(expr.left, call.state, Entered)
            r == Evaluate(expr.right, l.state, l.world)
        IN  (l.exc = NoExc /\ r.exc = NoExc) =>
                IF l.type # r.type THEN exc = InterpTypeError /\ pc = "raised"
                ELSE IF l.type \notin C15_Allowed(expr.kind)
                     THEN exc = InterpTypeError /\ pc = "raised"
                ELSE wellTyped([left |-> l, right |-> r])

C15_Succeeds(o) == exc = NoExc /\ pc = "returned" /\ last_type = o.left.type

\* C15 as stated: for add, subtract, multiply, divide, and, or, operands of
\* different types fail with a TypeFault, operands of one type outside the
\* operator's allowed set fail with a TypeFault, and otherwise the operation
\* succeeds with the operand type as its result type.
C15_OperatorTypeRules == C15_Rules(C15_Succeeds)

C15_SucceedsUnlessZeroDivisor(o) ==
    IF expr.kind = "Divide" /\ o.right.value \in {PyInt(0), PyFloat(0, 1)}
    THEN exc = ZeroDivisionError /\ pc = "raised"
    ELSE C15_Succeeds(o)

\* C15, amended: as stated, except that divide over two Integer or two
\* FloatingPoint operands whose right operand is zero does not succeed: it
\* ends in the arithmetic fault of the host, which is no TypeFault.
C15_OperatorTypeRulesAmended == C15_Rules(C15_SucceedsUnlessZeroDivisor)

\* divide over two FloatingPoint operands, one type of the allowed set, does
\* not succeed when the right one is 0.0
C15_Witness ==
    /\ expr = Divide(FloatingPointLiteral(14, 2), FloatingPointLiteral(0, 2))
    /\ exc = ZeroDivisionError
    /\ pc = "raised"
    /\ world.heap = <<>>

\* the greatest integer q with q * b <= a for b > 0, a <= q * b for b < 0:
\* floor(a / b)
C16_Floor(a, b) ==
    LET m == Abs(a) + 1
    IN  CHOOSE q \in (0 - m)..m :
            IF b > 0 THEN q * b <= a /\ a < (q + 1) * b
            ELSE a <= q * b /\ (q + 1) * b < a

\* C16: divide over two Integer operands a and b with b # 0 yields
\* (floor(a / b), Integer), rounding toward negative infinity for operands of
\* opposite sign (7 / 2 = 3, -7 / 2 = -4); with b = 0 the outcome is a host
\* arithmetic fault that is neither a TypeFault nor a SyntaxFault and yields
\* no result triple.
C16_IntegerDivide ==
    /\ expr.kind = "Divide" =>
           LET l == Evaluate(expr.left, call.state, Entered)
               r == Evaluate(expr.right, l.state, l.world)
           IN  (l.exc = NoExc /\ r.exc = NoExc /\ l.type = Integer /\ r.type = Integer)
               => IF r.value.val # 0
                  THEN /\ exc = NoExc
                       /\ pc = "returned"
                       /\ last_type = Integer
                       /\ last_value = PyInt(C16_Floor(l.value.val, r.value.val))
                       /\ last_state = r.state
                  ELSE /\ exc = ZeroDivisionError
                       /\ exc \notin {InterpTypeError, InterpSyntaxError}
                       /\ pc = "raised"
                       /\ last_state = call.state
                       /\ world = r.world
    /\ expr = Divide(IntLiteral(7), IntLiteral(2)) => last_value = PyInt(3)
    /\ expr = Divide(IntLiteral(-7), IntLiteral(2)) => last_value = PyInt(-4)
    /\ expr = Divide(IntLiteral(2), IntLiteral(-7)) => last_value = PyInt(-1)
    /\ expr = Divide(IntLiteral(-7), IntLiteral(-7)) => last_value = PyInt(1)

\* operands of opposite sign: the quotient is rounded down, not toward zero
C16_Witness ==
    /\ expr = Divide(IntLiteral(-7), IntLiteral(2))
    /\ pc = "returned"
    /\ last_value = PyInt(-4)
    /\ last_type = Integer

\* C17: and(l, r) and or(l, r) always evaluate both operands, l first and
\* then r, whatever the value of l; an assignment or print inside r takes
\* effect even when l already decides the result (and(false, r), or(true, r)),
\* and a non-Boolean r makes and(false, r) and or(true, r) fail with a
\* TypeFault.
C17_NoShortCircuit ==
    /\ expr.kind \in LogicKinds =>
           LET l == Evaluate(expr.left, call.state, Entered)
               r == Evaluate(expr.right, l.state, l.world)
           IN  l.exc = NoExc =>
                   /\ NewCalls = <<expr.kind>> \o C12_Calls(Entered, l.world)
                                               \o C12_Calls(l.world, r.world)
                   /\ world = r.world
                   /\ r.exc # NoExc => exc = r.exc
                   /\ (r.exc = NoExc /\ l.type = Boolean /\ r.type # Boolean)
                      => exc = InterpTypeError /\ pc = "raised"
                   /\ (r.exc = NoExc /\ l.type = Boolean /\ r.type = Boolean)
                      => /\ exc = NoExc
                         /\ last_state = r.state
                         /\ last_type = Boolean
                         /\ last_value =
                                PyBool(IF expr.kind = "And"
                                       THEN l.value.val /\ r.value.val
                                       ELSE l.value.val \/ r.value.val)
    /\ \A b \in BOOLEAN :
           (/\ expr = Binary(IF b THEN "Or" ELSE "And", BooleanLiteral(b),
                             Assign(X, BooleanLiteral(TRUE)))
            /\ Unbound("x"))
           => /\ pc = "returned"
              /\ last_value = PyBool(b)
              /\ EnvAfter = <<[name |-> "x", value |-> PyBool(TRUE), type |-> Boolean]>>
                            \o EnvBefore
    /\ \A b \in BOOLEAN :
           expr = Binary(IF b THEN "Or" ELSE "And", BooleanLiteral(b),
                         PrintNode(BooleanLiteral(FALSE)))
           => /\ pc = "returned"
              /\ last_value = PyBool(b)
              /\ NewLines = <<FalseText>>
    /\ \A b \in BOOLEAN, r \in {IntLiteral(1), Ren} :
           expr = Binary(IF b THEN "Or" ELSE "And", BooleanLiteral(b), r)
           => exc = InterpTypeError /\ pc = "raised"

\* the left operand of or is true and the print in the right operand still
\* writes its line
C17_Witness ==
    /\ expr = Or(BooleanLiteral(TRUE), PrintNode(BooleanLiteral(FALSE)))
    /\ pc = "returned"
    /\ last_value = PyBool(TRUE)
    /\ NewLines = <<FalseText>>

\* C18: in every run started from the empty environment, the chain a step
\* returns is as long as the incoming chain plus the number of assign nodes
\* that completed during the step, each loop iteration counted separately;
\* every successful assignment adds exactly one node, also when it rebinds a
\* name, and no other construct adds or removes a node.
C18_EnvironmentGrowth ==
    LET assigns == Count(NewCalls, "Assign")
        grown == Len(EnvAfter) - Len(EnvBefore)
    IN  /\ exc = NoExc =>
               /\ grown = assigns
               /\ SubSeq(EnvAfter, grown + 1, Len(EnvAfter)) = EnvBefore
               /\ Len(world.heap) = Len(call.world.heap) + assigns
        /\ exc # NoExc =>
               /\ Len(world.heap) - Len(call.world.heap) \in 0..assigns
               /\ last_state = call.state
        /\ assigns = 0 => world.heap = call.world.heap
        /\ (pc # "raised" /\ expr # NoExpr) => Len(EnvAfter) = Len(world.heap)
        /\ (expr.kind = "Assign" /\ expr.value \in Literals /\ exc = NoExc)
           => Len(EnvAfter) = Len(EnvBefore) + 1
        /\ \A N \in 0..MaxIter :
               (expr = CounterLoop("x", N) /\ EnvBefore # <<>>
                /\ EnvBefore[1] = [name |-> "x", value |-> PyInt(0), type |-> Integer])
               => Len(EnvAfter) = Len(EnvBefore) + N

\* x is bound to 0 and is assigned 0 again: the chain grows by one node
C18_Witness ==
    /\ expr = Assign(X, IntLiteral(0))
    /\ EnvBefore # <<>>
    /\ EnvBefore[1] = [name |-> "x", value |-> PyInt(0), type |-> Integer]
    /\ pc = "returned"
    /\ Len(EnvAfter) = Len(EnvBefore) + 1
    /\ EnvAfter[1] = EnvAfter[2]

\* all bindings of the chain that carry one name carry one type
C19_Stable(env) ==
    \A i, j \in 1..Len(env) : env[i].name = env[j].name => env[i].type = env[j].type

\* C19: in every environment reachable by running a program from the empty
\* environment, all bindings of the chain that carry the same name carry the
\* same type: the type a name got at its first assignment is the type of
\* every later binding of it, the Unit type included.
C19_TypeStability ==
    /\ C19_Stable(EnvAfter)
    /\ \A s \in 1..Len(world.heap) : C19_Stable(Chain(world.heap, s))
    /\ \A s \in 1..Len(world.heap) : world.heap[s].value.val[2] \in Types
    /\ (expr.kind = "Assign" /\ expr.value \in Literals /\ EnvBefore # <<>>
        /\ EnvBefore[Len(EnvBefore)].name = expr.variable.variable_name
        /\ exc = NoExc)
       => last_type = EnvBefore[Len(EnvBefore)].type

\* x was first bound to the unit value, and an Integer is not assigned to it
C19_Witness ==
    /\ expr = Assign(X, IntLiteral(7))
    /\ Len(EnvBefore) = 2
    /\ EnvBefore[1] = [name |-> "x", value |-> None, type |-> Unit]
    /\ EnvBefore[2] = [name |-> "x", value |-> None, type |-> Unit]
    /\ exc = InterpTypeError
    /\ pc = "raised"
    /\ world.heap = call.world.heap

\* the expression contains no assign node
RECURSIVE C20_NoAssign(_)
C20_NoAssign(e) ==
    CASE e.kind = "Assign" -> FALSE
      [] e.kind = "Print" -> C20_NoAssign(e.to_print)
      [] e.kind \in {"Sequence", "Program"} ->
           \A i \in 1..Len(e.exprs) : C20_NoAssign(e.exprs[i])
      [] e.kind \in BinaryKinds -> C20_NoAssign(e.left) /\ C20_NoAssign(e.right)
      [] e.kind = "Not" -> C20_NoAssign(e.expr)
      [] e.kind = "If" ->
           C20_NoAssign(e.condition) /\ C20_NoAssign(e.true) /\ C20_NoAssign(e.false)
      [] e.kind = "While" -> C20_NoAssign(e.condition) /\ C20_NoAssign(e.body)
      [] OTHER -> TRUE

\* C20: evaluating an expression that contains no assign node (literals,
\* variable references, print, arithmetic, boolean and comparison operators,
\* if, sequence, while with a false condition) returns as its environment
\* exactly the incoming environment, and evaluating the same expression again
\* against the same environment yields the same value and type.
C20_PureEvaluation ==
    (expr # NoExpr /\ C20_NoAssign(expr)) =>
        LET again == Evaluate(expr, call.state, world)
        IN  /\ world.heap = call.world.heap
            /\ again.exc = exc
            /\ again.world.heap = world.heap
            /\ exc = NoExc =>
                   /\ last_state = call.state
                   /\ EnvAfter = EnvBefore
                   /\ again.value = last_value
                   /\ again.type = last_type
                   /\ again.state = last_state

\* an if over a comparison that reads x and a branch that prints: the
\* environment that holds x is returned as it was
C20_Witness ==
    /\ expr = If(Lt(X, IntLiteral(1)), PrintNode(IntLiteral(7)), Y)
    /\ EnvBefore = <<[name |-> "x", value |-> PyInt(0), type |-> Integer]>>
    /\ pc = "returned"
    /\ last_value = PyInt(7)
    /\ last_state = call.state
    /\ NewLines = <<C14_Seven>>

====
